---- MODULE Spec2Model ----
(***************************************************************************)
(* Model of fuellog.py: the CSV fuel log, the commands add / stats / month *)
(* and the tank-to-tank cycle reconstruction they share.                   *)
(*                                                                         *)
(* Numbers.  The program computes with Python floats.  The model computes  *)
(* with exact rationals <<n, d>> (d > 0, lowest terms); floating-point     *)
(* rounding of sums and quotients is not modelled.  The command-line       *)
(* arguments are dyadic rationals, which floats hold exactly, so the       *)
(* fixed-point formatting of add_entry (round-half-even on the exact       *)
(* value) is modelled exactly.  A CSV field written with k decimals is     *)
(* kept as the integer number of 10^-k units it spells.                    *)
(***************************************************************************)
EXTENDS Integers, Sequences, FiniteSets, TLC

\* csv: the data rows of fuel_log.csv in file order, each as written by
\* add_entry.  out: what the last command printed (its outcome and the values
\* it computed, before they are formatted for display).
VARIABLES csv, out

vars == <<csv, out>>

(* ----------------------------- bounds --------------------------------- *)

\* Largest number of data rows in fuel_log.csv.
MaxRows == 3

\* --date arguments, as <<year, month, day>>.
DateArgs == {<<2025, 1, 15>>, <<2025, 2, 1>>}

\* --odometer arguments in km: 0.25 and 0.75.
OdometerArgs == {<<1, 4>>, <<3, 4>>}

\* <<--liters, --price>> arguments: 1.0625 L at 1.0625 kr, and -0.5 L at
\* 4 kr (float() takes a negative number).
PurchaseArgs == {<<<<17, 16>>, <<17, 16>>>>, <<<<-1, 2>>, <<4, 1>>>>}

\* --full arguments.
FullArgs == {"yes", "no"}

\* Targets of the month command, as <<year, month>>.
MonthArgs == {<<2025, 1>>, <<2024, 2>>}

(* --------------------------- rationals -------------------------------- *)

Abs(n) == IF n < 0 THEN -n ELSE n

RECURSIVE GCD(_, _)
GCD(a, b) == IF b = 0 THEN a ELSE GCD(b, a % b)

\* The rational n/d in lowest terms with a positive denominator.
Rat(n, d) ==
    LET g == GCD(Abs(n), Abs(d))
        s == IF d < 0 THEN -1 ELSE 1
    IN  <<(s * n) \div g, (s * d) \div g>>

Zero == <<0, 1>>

\* The operations reduce before they multiply, to keep the integers small.
RatAdd(x, y) ==
    LET g == GCD(x[2], y[2])
    IN  Rat(x[1] * (y[2] \div g) + y[1] * (x[2] \div g), (x[2] \div g) * y[2])
RatSub(x, y) == RatAdd(x, <<-y[1], y[2]>>)
RatMul(x, y) ==
    LET a == Rat(x[1], y[2])
        b == Rat(y[1], x[2])
    IN  Rat(a[1] * b[1], a[2] * b[2])
RatDiv(x, y) == RatMul(x, Rat(y[2], y[1]))
RatPos(x) == x[1] > 0
RatNeg(x) == x[1] < 0
RatLeq(x, y) == x[1] * y[2] <= y[1] * x[2]

\* Python's sum() over a sequence of numbers.
RECURSIVE RatSum(_)
RatSum(s) == IF s = <<>> THEN Zero ELSE RatAdd(RatSum(SubSeq(s, 1, Len(s) - 1)), s[Len(s)])

\* The value None.
None == <<>>

(* ---------------------- add_entry: formatting ------------------------- *)

RECURSIVE Pow10(_)
Pow10(k) == IF k = 0 THEN 1 ELSE 10 * Pow10(k - 1)

\* n/d (d > 0) rounded to the nearest integer, ties to even.
RoundHalfEven(n, d) ==
    LET a == Abs(n)
        q == a \div d
        r == a % d
        m == IF 2 * r < d THEN q
             ELSE IF 2 * r > d THEN q + 1
             ELSE IF q % 2 = 0 THEN q ELSE q + 1
    IN  IF n < 0 THEN -m ELSE m

\* f"{x:.kf}": the text of x with k decimals, kept as its count of 10^-k.
FormatFixed(x, k) == RoundHalfEven(x[1] * Pow10(k), x[2])

\* float(text) of a field written with k decimals.
ParseFixed(t, k) == Rat(t, Pow10(k))

parse_bool(v) == v \in {"y", "yes", "true", "1", "full", "f", "ja"}

\* The CSV row add_entry writes for its arguments (notes left out).
CsvRow(date, odometer, liters, price, full) ==
    [date |-> date,
     odometer_km |-> FormatFixed(odometer, 1),
     liters |-> FormatFixed(liters, 3),
     price_per_liter_sek |-> FormatFixed(price, 3),
     full_fill |-> IF parse_bool(full) THEN "yes" ELSE "no"]

(* ----------------------------- read_rows ------------------------------ *)

DateLess(a, b) ==
    \/ a[1] < b[1]
    \/ a[1] = b[1] /\ a[2] < b[2]
    \/ a[1] = b[1] /\ a[2] = b[2] /\ a[3] < b[3]

\* (date, odometer_km) of a is not after that of b.
KeyLeq(a, b) ==
    \/ DateLess(a.date, b.date)
    \/ a.date = b.date /\ RatLeq(a.odometer_km, b.odometer_km)

\* r put into the sorted s behind every row whose key is not after r's.
RECURSIVE Insert(_, _)
Insert(s, r) ==
    IF s = <<>> THEN <<r>>
    ELSE IF KeyLeq(s[Len(s)], r) THEN Append(s, r)
    ELSE Append(Insert(SubSeq(s, 1, Len(s) - 1), r), s[Len(s)])

\* list.sort(key = (date, odometer_km)): stable, ascending.
RECURSIVE SortRows(_)
SortRows(s) ==
    IF s = <<>> THEN <<>>
    ELSE Insert(SortRows(SubSeq(s, 1, Len(s) - 1)), s[Len(s)])

\* One CSV row with its fields converted.
ParseRow(t) ==
    [date |-> t.date,
     odometer_km |-> ParseFixed(t.odometer_km, 1),
     liters |-> ParseFixed(t.liters, 3),
     price_per_liter_sek |-> ParseFixed(t.price_per_liter_sek, 3),
     full_fill |-> (t.full_fill = "yes")]

read_rows(file) == SortRows([i \in 1..Len(file) |-> ParseRow(file[i])])

(* ------------------------------- cycles ------------------------------- *)

Tail1(s) == SubSeq(s, 2, Len(s))

\* MakeCycle with the sums taken over the whole buffer, anchor included.
MakeCycle_WholeBuffer(cycle_rows) ==
    LET start == cycle_rows[1]
        end == cycle_rows[Len(cycle_rows)]
        rest == cycle_rows
        liters_used == RatSum([i \in 1..Len(rest) |-> rest[i].liters])
        distance == RatSub(end.odometer_km, start.odometer_km)
        total_cost == RatSum([i \in 1..Len(rest) |->
                                 RatMul(rest[i].liters, rest[i].price_per_liter_sek)])
        ok == RatPos(distance) /\ RatPos(liters_used)
    IN  [start_date |-> start.date,
         end_date |-> end.date,
         start_odo |-> start.odometer_km,
         end_odo |-> end.odometer_km,
         distance_km |-> distance,
         liters_used |-> liters_used,
         l_per_100km |-> IF ok THEN RatMul(RatDiv(liters_used, distance), <<100, 1>>) ELSE None,
         cost_total_sek |-> total_cost,
         cost_per_km_sek |-> IF ok THEN RatDiv(total_cost, distance) ELSE None,
         fills_count |-> Len(cycle_rows)]

\* The dict appended for a closed cycle, from the buffer that closes it.
MakeCycle(cycle_rows) ==
    LET start == cycle_rows[1]
        end == cycle_rows[Len(cycle_rows)]
        rest == Tail1(cycle_rows)
        liters_used == RatSum([i \in 1..Len(rest) |-> rest[i].liters])
        distance == RatSub(end.odometer_km, start.odometer_km)
        total_cost == RatSum([i \in 1..Len(rest) |->
                                 RatMul(rest[i].liters, rest[i].price_per_liter_sek)])
        ok == RatPos(distance) /\ RatPos(liters_used)
    IN  [start_date |-> start.date,
         end_date |-> end.date,
         start_odo |-> start.odometer_km,
         end_odo |-> end.odometer_km,
         distance_km |-> distance,
         liters_used |-> liters_used,
         l_per_100km |-> IF ok THEN RatMul(RatDiv(liters_used, distance), <<100, 1>>) ELSE None,
         cost_total_sek |-> total_cost,
         cost_per_km_sek |-> IF ok THEN RatDiv(total_cost, distance) ELSE None,
         fills_count |-> Len(cycle_rows) - 1]

\* The locals of cycles() before the loop; last_full is <<>> for None and
\* <<r>> for the row r.
CyclesInit == [cycles |-> <<>>, buffer |-> <<>>, last_full |-> <<>>]

\* CyclesStep without the test for the first full fill: every full fill
\* closes a cycle.
CyclesStep_NoAnchor(st, r) ==
    LET buffer == Append(st.buffer, r)
    IN  IF r.full_fill
        THEN [cycles |-> Append(st.cycles, MakeCycle(buffer)),
              buffer |-> <<r>>, last_full |-> <<r>>]
        ELSE [st EXCEPT !.buffer = buffer]

\* CyclesStep without the buffer reset at the first full fill.
CyclesStep_KeepBuffer(st, r) ==
    LET buffer == Append(st.buffer, r)
    IN  IF r.full_fill
        THEN IF st.last_full = <<>>
             THEN [cycles |-> st.cycles, buffer |-> buffer, last_full |-> <<r>>]
             ELSE [cycles |-> Append(st.cycles, MakeCycle(buffer)),
                   buffer |-> <<r>>, last_full |-> <<r>>]
        ELSE [st EXCEPT !.buffer = buffer]

\* CyclesStep that forgets the anchor after closing a cycle.
CyclesStep_ForgetAnchor(st, r) ==
    LET buffer == Append(st.buffer, r)
    IN  IF r.full_fill
        THEN IF st.last_full = <<>>
             THEN [cycles |-> st.cycles, buffer |-> <<r>>, last_full |-> <<r>>]
             ELSE [cycles |-> Append(st.cycles, MakeCycle(buffer)),
                   buffer |-> <<r>>, last_full |-> <<>>]
        ELSE [st EXCEPT !.buffer = buffer]

\* One iteration of the loop of cycles() on row r.
CyclesStep(st, r) ==
    LET buffer == Append(st.buffer, r)
    IN  IF r.full_fill
        THEN IF st.last_full = <<>>
             THEN [cycles |-> st.cycles, buffer |-> <<r>>, last_full |-> <<r>>]
             ELSE [cycles |-> Append(st.cycles, MakeCycle(buffer)),
                   buffer |-> <<r>>, last_full |-> <<r>>]
        ELSE [st EXCEPT !.buffer = buffer]

RECURSIVE CyclesLoop(_)
CyclesLoop(rows) ==
    IF rows = <<>> THEN CyclesInit
    ELSE CyclesStep(CyclesLoop(SubSeq(rows, 1, Len(rows) - 1)), rows[Len(rows)])

cycles(rows) == CyclesLoop(rows).cycles

(* ----------------------------- commands ------------------------------- *)

\* What show_last_cycle_consumption prints: <<latest>> or nothing.
show_last_cycle_consumption(file) ==
    LET cs == cycles(read_rows(file))
    IN  IF cs # <<>> /\ cs[Len(cs)].l_per_100km # None
        THEN <<cs[Len(cs)]>>
        ELSE <<>>

\* The cycles with a rate, in order.
SelectRated(cs) == SelectSeq(cs, LAMBDA c : c.l_per_100km # None)

\* The summary part of stats(); the division by len(v) fails on an empty v.
Overall(cs) ==
    LET v == SelectRated(cs)
        n == Len(v)
    IN  IF n = 0
        THEN [status |-> "ZeroDivisionError"]
        ELSE [status |-> "ok",
              avg_l100 |-> RatDiv(RatSum([i \in 1..n |-> v[i].l_per_100km]), <<n, 1>>),
              avg_cost_km |-> RatDiv(RatSum([i \in 1..n |-> v[i].cost_per_km_sek]), <<n, 1>>),
              total_km |-> RatSum([i \in 1..n |-> v[i].distance_km]),
              total_l |-> RatSum([i \in 1..n |-> v[i].liters_used]),
              total_cost |-> RatSum([i \in 1..n |-> v[i].cost_total_sek])]

\* The outcome of stats(): where it stops and the figures it has computed.
\* The print of the latest cycle formats l_per_100km and cost_per_km_sek
\* with :.2f, which raises TypeError on None.
StatsResult(file) ==
    LET rows == read_rows(file)
        cs == cycles(rows)
        latest == cs[Len(cs)]
    IN  IF Len(rows) < 2 THEN [status |-> "few_rows"]
        ELSE IF cs = <<>> THEN [status |-> "no_cycles"]
        ELSE IF latest.l_per_100km = None \/ latest.cost_per_km_sek = None
             THEN [status |-> "TypeError", header |-> latest]
        ELSE [latest |-> latest] @@ Overall(cs)

\* month() with only full fills counted.
MonthTotals_FullOnly(rows, y, m) ==
    LET hit == SelectSeq(rows, LAMBDA r : r.date[1] = y /\ r.date[2] = m /\ r.full_fill)
    IN  [fills |-> Len(hit),
         liters |-> RatSum([i \in 1..Len(hit) |-> hit[i].liters]),
         cost |-> RatSum([i \in 1..Len(hit) |->
                             RatMul(hit[i].liters, hit[i].price_per_liter_sek)])]

\* The loop of month() over the rows, for the target year y and month m.
MonthTotals(rows, y, m) ==
    LET hit == SelectSeq(rows, LAMBDA r : r.date[1] = y /\ r.date[2] = m)
    IN  [fills |-> Len(hit),
         liters |-> RatSum([i \in 1..Len(hit) |-> hit[i].liters]),
         cost |-> RatSum([i \in 1..Len(hit) |->
                             RatMul(hit[i].liters, hit[i].price_per_liter_sek)])]

\* What month() prints; month_km is shown when it is positive.
MonthResult(file, y, m) ==
    LET rows == read_rows(file)
        cs == cycles(rows)
        ends == SelectSeq(cs, LAMBDA c : c.end_date[1] = y /\ c.end_date[2] = m)
    IN  IF rows = <<>> THEN [status |-> "no_data"]
        ELSE [status |-> "ok",
              month_km |-> RatSum([i \in 1..Len(ends) |-> ends[i].distance_km])]
             @@ MonthTotals(rows, y, m)

(* ------------------------------ actions ------------------------------- *)

Init ==
    /\ csv = <<>>
    /\ out = [cmd |-> "none"]

\* add: append one row to the file, then show the latest cycle.  The
\* arguments are well formed; a date or number that does not parse ends the
\* command before the file is touched.
AddEntry(date, odometer, purchase, full) ==
    /\ Len(csv) < MaxRows
    /\ csv' = Append(csv, CsvRow(date, odometer, purchase[1], purchase[2], full))
    /\ out' = [cmd |-> "add", shown |-> show_last_cycle_consumption(csv')]

Stats ==
    /\ out' = [cmd |-> "stats"] @@ StatsResult(csv)
    /\ UNCHANGED csv

Month(ym) ==
    /\ out' = [cmd |-> "month", ym |-> ym] @@ MonthResult(csv, ym[1], ym[2])
    /\ UNCHANGED csv

\* Every command is a process of its own that reads the file afresh, and
\* stats and month leave the file alone, so the log is followed once with
\* each of them.

\* The log under add and stats.
Next ==
    \/ \E date \in DateArgs, odometer \in OdometerArgs, purchase \in PurchaseArgs, full \in FullArgs :
          AddEntry(date, odometer, purchase, full)
    \/ Stats

Spec == Init /\ [][Next]_vars

\* The log under add and month.
NextMonth ==
    \/ \E date \in DateArgs, odometer \in OdometerArgs, purchase \in PurchaseArgs, full \in FullArgs :
          AddEntry(date, odometer, purchase, full)
    \/ \E ym \in MonthArgs : Month(ym)

SpecMonth == Init /\ [][NextMonth]_vars

(* ------------------------------ claims -------------------------------- *)

\* The rows and the cycles every command computes from the current file.
Rows == read_rows(csv)
Cs == cycles(Rows)

\* The positions of the full fills of rs, ascending.
FullIdx(rs) == SelectSeq([i \in 1..Len(rs) |-> i], LAMBDA i : rs[i].full_fill)
FullCount(rs) == Cardinality({i \in 1..Len(rs) : rs[i].full_fill})

IsPrefix(a, b) == Len(a) <= Len(b) /\ SubSeq(b, 1, Len(a)) = a

\* liters > 0, price >= 0 and odometer >= 0 in every row.
WellTyped(rs) ==
    \A i \in 1..Len(rs) :
        RatPos(rs[i].liters) /\ ~RatNeg(rs[i].price_per_liter_sek) /\ ~RatNeg(rs[i].odometer_km)

Failures == {"TypeError", "ZeroDivisionError"}

\* C1: cycles() returns max(0, F - 1) cycles, F the number of full fills of
\* its input; with no or one full fill it returns the empty list.
CycleCountLaw ==
    LET rows == Rows
        n == Len(cycles(rows))
        F == FullCount(rows)
    IN  /\ n = (IF F = 0 THEN 0 ELSE F - 1)
        /\ F <= 1 => n = 0

\* Three full fills have been added and two cycles are returned.
CycleCountWitness ==
    out.cmd = "add" /\ FullCount(Rows) = 3 /\ Len(Cs) = 2

\* C2: liters_used, cost_total_sek and fills_count of the k-th cycle are the
\* sum of liters, the sum of liters * price and the number of the rows
\* strictly after the k-th full fill up to and including the (k+1)-th.
SumLaw ==
    LET rows == Rows
        cs == cycles(rows)
        F == FullIdx(rows)
    IN  \A k \in 1..Len(cs) :
            /\ k + 1 <= Len(F)
            /\ LET S == SubSeq(rows, F[k] + 1, F[k + 1])
               IN  /\ cs[k].liters_used = RatSum([i \in 1..Len(S) |-> S[i].liters])
                   /\ cs[k].cost_total_sek =
                          RatSum([i \in 1..Len(S) |->
                                     RatMul(S[i].liters, S[i].price_per_liter_sek)])
                   /\ cs[k].fills_count = Len(S)

\* Full, partial, full: one cycle of two fills whose liters are those of the
\* partial and of the closing full fill.
SumLawWitness ==
    /\ out.cmd = "add"
    /\ Len(Rows) = 3
    /\ Rows[1].full_fill /\ ~Rows[2].full_fill /\ Rows[3].full_fill
    /\ Len(Cs) = 1
    /\ Cs[1].fills_count = 2
    /\ Cs[1].liters_used = RatAdd(Rows[2].liters, Rows[3].liters)
    /\ RatPos(Rows[1].liters)

\* C3: a cycle with distance_km <= 0 has no rate and keeps distance_km =
\* end_odo - start_odo; both rates are there exactly when distance_km > 0 and
\* liters_used > 0; a rate that is there is not negative.
RatesOnlyWhenPositive ==
    \A k \in 1..Len(Cs) :
        LET c == Cs[k]
        IN  /\ c.distance_km = RatSub(c.end_odo, c.start_odo)
            /\ ~RatPos(c.distance_km) => c.l_per_100km = None /\ c.cost_per_km_sek = None
            /\ (c.l_per_100km # None) <=> (RatPos(c.distance_km) /\ RatPos(c.liters_used))
            /\ (c.cost_per_km_sek # None) <=> (RatPos(c.distance_km) /\ RatPos(c.liters_used))
            /\ c.l_per_100km # None => ~RatNeg(c.l_per_100km)
            /\ c.cost_per_km_sek # None => ~RatNeg(c.cost_per_km_sek)

\* A cycle carries a set flag: a key besides the ten of the cycle dict whose
\* value is TRUE.
Flagged(c) ==
    \E f \in DOMAIN c \ {"start_date", "end_date", "start_odo", "end_odo", "distance_km",
                         "liters_used", "l_per_100km", "cost_total_sek", "cost_per_km_sek",
                         "fills_count"} : c[f] = TRUE

\* C4: a cycle carries a set data-quality flag exactly when its distance_km
\* is negative.
FlagOnRollback ==
    \A k \in 1..Len(Cs) : Flagged(Cs[k]) <=> RatNeg(Cs[k].distance_km)

\* C5: when there are cycles and none has a rate, stats() does not fail.
InsufficientDataIsNormal ==
    (out.cmd = "stats" /\ Cs # <<>> /\ SelectRated(Cs) = <<>>)
        => out.status \notin Failures

\* C6: when the latest cycle of a well-typed log has no rate, stats() does
\* not fail and the add command shows no rate.
DegenerateLatestReported ==
    (WellTyped(Rows) /\ Cs # <<>> /\ Cs[Len(Cs)].l_per_100km = None)
        => /\ out.cmd = "stats" => out.status \notin Failures
           /\ out.cmd = "add" => out.shown = <<>>

\* C7: when some cycle has a rate, stats() reports the means of the rates and
\* the sums of distance, liters and cost over the cycles that have one.
MeanOfRates ==
    (out.cmd = "stats" /\ \E k \in 1..Len(Cs) : Cs[k].l_per_100km # None)
        => LET v == SelectSeq(Cs, LAMBDA c : c.l_per_100km # None)
               n == Len(v)
           IN  /\ out.status = "ok"
               /\ out.avg_l100 = RatDiv(RatSum([i \in 1..n |-> v[i].l_per_100km]), <<n, 1>>)
               /\ out.avg_cost_km = RatDiv(RatSum([i \in 1..n |-> v[i].cost_per_km_sek]), <<n, 1>>)
               /\ out.total_km = RatSum([i \in 1..n |-> v[i].distance_km])
               /\ out.total_l = RatSum([i \in 1..n |-> v[i].liters_used])
               /\ out.total_cost = RatSum([i \in 1..n |-> v[i].cost_total_sek])

\* The rows with their full_fill flags replaced by f.
Reflag(rs, f) == [i \in 1..Len(rs) |-> [rs[i] EXCEPT !.full_fill = f[i]]]

\* C8: month() reports the number, the liters and the cost of all the records
\* of the target month, full or partial, whatever the full_fill flags are;
\* it reports no figures only for an empty log.
MonthlyTotalsLaw ==
    out.cmd = "month" =>
        LET y == out.ym[1]
            m == out.ym[2]
            P == [i \in 1..Len(csv) |-> ParseRow(csv[i])]
            hit == SelectSeq(P, LAMBDA r : r.date[1] = y /\ r.date[2] = m)
            rows == Rows
        IN  IF out.status = "no_data" THEN csv = <<>>
            ELSE /\ out.fills = Cardinality({i \in 1..Len(P) : P[i].date[1] = y /\ P[i].date[2] = m})
                 /\ out.liters = RatSum([i \in 1..Len(hit) |-> hit[i].liters])
                 /\ out.cost = RatSum([i \in 1..Len(hit) |->
                                          RatMul(hit[i].liters, hit[i].price_per_liter_sek)])
                 /\ \A f \in [1..Len(rows) -> BOOLEAN] :
                        MonthTotals(Reflag(rows, f), y, m) =
                            [fills |-> out.fills, liters |-> out.liters, cost |-> out.cost]

\* month() has reported two fills of the target month, one of them partial,
\* from a log that also holds a record of another month.
MonthlyTotalsWitness ==
    /\ out.cmd = "month" /\ out.status = "ok" /\ out.fills = 2
    /\ \E i \in 1..Len(Rows) : Rows[i].date[2] # out.ym[2]
    /\ \E i \in 1..Len(Rows) : Rows[i].date[2] = out.ym[2] /\ ~Rows[i].full_fill
    /\ \E i \in 1..Len(Rows) : Rows[i].date[2] = out.ym[2] /\ Rows[i].full_fill

\* C9: the k-th cycle starts at the k-th full fill of the input and ends at
\* the (k+1)-th, so both ends are full fills, no full fill lies between
\* them, and each cycle starts where the one before it ended.
BoundedByConsecutiveFulls ==
    LET rows == Rows
        cs == cycles(rows)
        F == FullIdx(rows)
    IN  \A k \in 1..Len(cs) :
            /\ k + 1 <= Len(F)
            /\ cs[k].start_date = rows[F[k]].date
            /\ cs[k].start_odo = rows[F[k]].odometer_km
            /\ cs[k].end_date = rows[F[k + 1]].date
            /\ cs[k].end_odo = rows[F[k + 1]].odometer_km
            /\ \A i \in (F[k] + 1)..(F[k + 1] - 1) : ~rows[i].full_fill

\* A partial fill leads the log and a cycle runs between the two full fills
\* behind it.
BoundedWitness ==
    /\ out.cmd = "add"
    /\ Len(Rows) = 3
    /\ ~Rows[1].full_fill /\ Rows[2].full_fill /\ Rows[3].full_fill
    /\ Len(Cs) = 1
    /\ Cs[1].start_date = Rows[2].date /\ Cs[1].start_odo = Rows[2].odometer_km
    /\ Rows[1].odometer_km # Rows[2].odometer_km

\* C10: a row added behind all others (it sorts last in read_rows) leaves
\* the cycles there were as a prefix and adds one cycle when it is a full
\* fill and the log already had one, and none otherwise.
PrefixStable ==
    [][Len(csv') = Len(csv) + 1 =>
          LET before == read_rows(csv)
              after == read_rows(csv')
              r == ParseRow(csv'[Len(csv')])
              old == cycles(before)
              new == cycles(after)
          IN  after = Append(before, r) =>
                  /\ IsPrefix(old, new)
                  /\ Len(new) = Len(old) +
                        (IF r.full_fill /\ FullCount(before) > 0 THEN 1 ELSE 0)]_vars

\* The row added last sorted last, was the third full fill and added the
\* second cycle behind the first.
PrefixStableWitness ==
    /\ out.cmd = "add"
    /\ Len(csv) = 3
    /\ LET before == read_rows(SubSeq(csv, 1, 2))
           r == ParseRow(csv[3])
       IN  /\ Rows = Append(before, r)
           /\ r.full_fill
           /\ Len(cycles(before)) = 1
           /\ Cs = Append(cycles(before), Cs[2])

====
